---- MODULE Spec2Model ----
(***************************************************************************)
(* Model of runtime/signals_nat.c (OCaml multicore, native-code signal and *)
(* allocation-trigger glue): caml_garbage_collection, handle_signal.       *)
(*                                                                         *)
(* Addresses are counted in words and kept modulo 2^AddrBits (uintnat).    *)
(* The collector, the pending-signal drain, the frame-descriptor table     *)
(* builder and the size macros live outside signals_nat.c; they are        *)
(* modelled from the specification and marked so in MODEL_MAP.json.        *)
(***************************************************************************)
EXTENDS Integers, Sequences, FiniteSets, TLC

(* ------------------------------ bounds -------------------------------- *)

\* width of an address (uintnat) in the model, in bits
AddrBits == 6
\* log2 of the frame-descriptor table size in the lookup specification
LogTblSize == 1
\* most descriptors inserted in a table of the lookup specification
MaxDescr == 2
\* number of distinct return addresses the call sites are drawn from
NumAddrs == 4
\* largest encoded allocation length byte drawn (the code allows 0..255)
MaxEnc == 1
\* most encoded sizes in one descriptor (the code allows 0..255)
MaxAllocs == 2
\* size of the minor heap, in words, in the main specification
HeapWords == 7
\* the call counters saturate at this value
MaxCount == 2

(* ------------------------- program constants -------------------------- *)

NSIG == 64
\* frame_size value marking a descriptor without metadata
NoFrame == 65535

AddrSpace == 2 ^ AddrBits
UMax == AddrSpace - 1
NULL == [null |-> TRUE]

Min(a, b) == IF a < b THEN a ELSE b
Sat(n) == Min(n + 1, MaxCount)

(* ----------------------- external definitions ------------------------- *)

\* caml/mlvalues.h: header-inclusive size of a header-exclusive size
Whsize_wosize(sz) == sz + 1
\* caml/frame_descriptors.h: header-exclusive size of an encoded length byte
Wosize_encoded_alloc_len(n) == n + 1
\* caml/frame_descriptors.h: masked hash of a return address
Hash_retaddr(addr, mask) == (addr \div 8) % (mask + 1)

\* a frame descriptor: retaddr, frame_size, num_live and, after the
\* num_live live offsets, the count byte and the encoded length bytes
LiveOfsCell == 2
MkDescr(ra, fs, nl, lens) ==
  [retaddr |-> ra, frame_size |-> fs, num_live |-> nl,
   tail |-> [i \in 1..nl |-> LiveOfsCell] \o <<Len(lens)>> \o lens]

(* ------------------ frame-descriptor table (external) ----------------- *)

\* the return addresses of the program's call sites: 8, 12, 16, 20, ...
\* (two per hash bucket, so that probing and wrap-around both occur)
RetAddr(i) == 4 * i + 4
RetAddrs == { RetAddr(i) : i \in 1..NumAddrs }

FrameSizes == {18, 16, NoFrame}
IsAllocFrame(fs) == fs # NoFrame /\ (fs \div 2) % 2 = 1

\* the encoded-length sequences of at most MaxAllocs bytes in 0..MaxEnc
LenSeqs == UNION { [1..n -> 0..MaxEnc] : n \in 0..MaxAllocs }
DescrShapes == { <<fs, nl, lens>> : fs \in FrameSizes, nl \in 0..1, lens \in LenSeqs }

\* first free slot at or after h, stepping by 1 under the mask
RECURSIVE FreeSlot(_, _, _)
FreeSlot(descriptors, h, mask) ==
  IF descriptors[h] = NULL THEN h
  ELSE FreeSlot(descriptors, (h + 1) % (mask + 1), mask)

\* insertion of descriptor d by linear probing
Insert(tbl, d) ==
  [tbl EXCEPT !.descriptors[FreeSlot(tbl.descriptors,
                                     Hash_retaddr(d.retaddr, tbl.mask),
                                     tbl.mask)] = d]

EmptyTable(logsize) ==
  [mask |-> 2 ^ logsize - 1,
   descriptors |-> [h \in 0..(2 ^ logsize - 1) |-> NULL]]

RECURSIVE BuildTable(_, _)
BuildTable(ds, logsize) ==
  IF ds = <<>> THEN EmptyTable(logsize)
  ELSE Insert(BuildTable(SubSeq(ds, 1, Len(ds) - 1), logsize), ds[Len(ds)])

\* the shape of the descriptor of call site i in the lookup specification
SiteShape(i) ==
  CASE i % 4 = 1 -> <<18, 0, <<0>>>>
    [] i % 4 = 2 -> <<18, 1, <<>>>>
    [] i % 4 = 3 -> <<18, 1, <<MaxEnc, 0>>>>
    [] OTHER     -> <<NoFrame, 0, <<>>>>
SiteDescr(i) == MkDescr(RetAddr(i), SiteShape(i)[1], SiteShape(i)[2], SiteShape(i)[3])

\* sequences of distinct call sites
SiteSeqs(n) ==
  { s \in UNION { [1..k -> 1..NumAddrs] : k \in 0..n } :
      \A a, b \in DOMAIN s : a # b => s[a] # s[b] }

\* tables of the lookup specification: every insertion order of at most
\* MaxDescr (and at most table-size) distinct call sites
LookupTables ==
  { BuildTable([k \in DOMAIN s |-> SiteDescr(s[k])], LogTblSize) :
      s \in SiteSeqs(Min(MaxDescr, 2 ^ LogTblSize)) }

\* descriptor shapes of the main specification: every poll shape, and
\* allocation shapes with one size, two sizes and the most and largest sizes
MainShapes ==
  { <<fs, nl, <<>>>> : fs \in FrameSizes, nl \in 0..1 }
  \cup { <<18, 0, <<0>>>>, <<18, 1, <<MaxEnc, 0>>>>, <<16, 0, <<MaxEnc>>>>,
         <<18, 1, [i \in 1..MaxAllocs |-> MaxEnc]>> }

\* tables of the main specification, of four slots: call site 2 (a poll),
\* then call site 1 of the same bucket with any main shape; the other call
\* sites have no descriptor
MainTables ==
  { BuildTable(<<SiteDescr(2), MkDescr(RetAddr(1), sh[1], sh[2], sh[3])>>, 2) :
      sh \in MainShapes }

Present(tbl, ra) ==
  \E h \in DOMAIN tbl.descriptors :
    tbl.descriptors[h] # NULL /\ tbl.descriptors[h].retaddr = ra

(* ------------------------------- state -------------------------------- *)

VARIABLES
  fds,          \* caml_get_frame_descrs(): [mask, descriptors]
  debug,        \* TRUE in a build where CAMLassert is compiled in
  sigset,       \* the signal numbers the OS delivers in this run
  young_start,  \* Caml_state->young_start
  young_end,    \* Caml_state->young_end
  young_ptr,    \* Caml_state->young_ptr, the heap cursor
  young_limit,  \* Caml_state->young_limit, the low-water limit
  pending,      \* the pending-signal set
  pc,           \* position of the running caml_garbage_collection call
  retaddr,      \* local retaddr: the return address on top of the stack
  h,            \* local h of the lookup loop
  d,            \* local d: the descriptor read, NULL before the lookup
  d_null,       \* TRUE when d is the null pointer read as a descriptor
  allocsz,      \* local allocsz
  whsize,       \* local whsize
  nallocs,      \* local nallocs: the count byte read from d
  ptr_writes,   \* stores to young_ptr made by this call itself (saturating)
  fault,        \* how the process ended, "none" while it runs
  gc_calls,     \* calls of caml_handle_gc_interrupt in this call (saturating)
  sig_calls,    \* calls of caml_process_pending_signals in this call (saturating)
  probes,       \* slots read by the lookup loop in this call (saturating)
  tramp_pc,     \* "none", or "body" while handle_signal runs
  sig,          \* argument of the current or latest handle_signal
  platform,     \* the build: "posix" (POSIX_SIGNALS), "bsd" (BSD_SIGNALS), "plain" (neither)
  blocked,      \* the signals the running thread has blocked
  signos,       \* the signal numbers passed to caml_set_signal_action in this run
  actset,       \* the action values passed to caml_set_signal_action in this run
  disp,         \* the OS disposition of every signal the OS knows
  errno,        \* errno of the running thread
  saved_errno,  \* local saved_errno of handle_signal
  sa,           \* the latest caml_set_signal_action call: arguments and result
  own_adj       \* net of the stores this call itself made to young_ptr

vars == <<fds, debug, sigset, young_start, young_end, young_ptr, young_limit, pending,
          pc, retaddr, h, d, d_null, allocsz, whsize, nallocs, ptr_writes, fault,
          gc_calls, sig_calls, probes, tramp_pc, sig, platform, blocked, signos,
          actset, disp, errno, saved_errno, sa, own_adj>>

heapVars == <<young_ptr, young_limit>>
envVars == <<fds, debug, sigset, young_start, young_end, platform, blocked, signos, actset>>
localVars == <<retaddr, h, d, d_null, allocsz, whsize, nallocs>>
countVars == <<gc_calls, sig_calls, probes, ptr_writes>>
trampVars == <<tramp_pc, sig, saved_errno>>
osVars == <<disp, errno>>

\* largest header-inclusive request a descriptor can decode to
MaxWhsize == MaxAllocs * Whsize_wosize(Wosize_encoded_alloc_len(MaxEnc))
\* the minor heap starts above address MaxWhsize: the cursor never wraps
HeapBase == MaxWhsize

\* values the external runtime gives the low-water limit: the heap start,
\* a trigger inside the heap, or the all-ones interrupt request
LimitChoices(ys, ye) == {ys, ys + (ye - ys) \div 2, UMax}

\* signal numbers delivered to the trampoline
SigInputs == {-1, 0, NSIG - 1, NSIG}

\* the signal numbers the OS accepts: 1 .. NSIG-1
OsValid(s) == 0 < s /\ s < NSIG
OsSigs == {s \in SigInputs : OsValid(s)}
\* dispositions: SIG_DFL, SIG_IGN, handle_signal, a handler of other code
Dispositions == {"default", "ignore", "managed", "other"}
\* action values passed to caml_set_signal_action
Actions == {0, 1, 2, 3}
\* errno values: 0 and the EINVAL the OS sets for a bad signal number
EINVAL == 22
\* no caml_set_signal_action call since compiled code last called the handler
NoCall == [called |-> FALSE, signo |-> 0, action |-> 0, oldact |-> "none", result |-> 0]

\* sigaction(signo, act, old) or signal(signo, act): a known signal takes the
\* disposition; for any other number the call fails with errno = EINVAL
OsSetDisposition(dsp, s, act) == IF OsValid(s) THEN [dsp EXCEPT ![s] = act] ELSE dsp
OsSetErrno(e, s) == IF OsValid(s) THEN e ELSE EINVAL

\* a delivery where registration does not persist: the OS puts the
\* disposition back to SIG_DFL before it runs the handler
OsDeliver(plat, dsp, s) ==
  IF plat = "plain" /\ OsValid(s) THEN [dsp EXCEPT ![s] = "default"] ELSE dsp

\* mutant: no build re-arms the handler
RearmNever(plat, dsp, s) == dsp

\* #if !defined(POSIX_SIGNALS) && !defined(BSD_SIGNALS)  signal(sig, handle_signal);
Rearm(plat, dsp, s) ==
  IF plat = "plain" THEN OsSetDisposition(dsp, s, "managed") ELSE dsp
RearmErrno(plat, e, s) == IF plat = "plain" THEN OsSetErrno(e, s) ELSE e

\* net of the stores to young_ptr, modulo the address space
OwnAdj(adj, old, new) == (adj + new - old) % AddrSpace

InitEnv(tables, base, heapwords, sigs, plats, blocks, nos, acts, disps) ==
  /\ fds \in tables
  /\ sigset = sigs
  /\ platform \in plats
  /\ blocked \in blocks
  /\ signos = nos
  /\ actset = acts
  /\ disp \in [OsSigs -> disps]
  /\ errno = 0 /\ saved_errno = 0
  /\ sa = NoCall
  /\ own_adj = 0
  /\ debug \in BOOLEAN
  /\ young_start = base
  /\ young_end = base + heapwords
  /\ young_ptr \in young_start..young_end
  /\ young_limit \in LimitChoices(young_start, young_end)
  /\ pending = {}
  /\ pc = "idle"
  /\ retaddr = 0 /\ h = 0 /\ d = NULL /\ d_null = FALSE
  /\ allocsz = 0 /\ whsize = 0 /\ nallocs = 0 /\ ptr_writes = 0
  /\ fault = "none"
  /\ gc_calls = 0 /\ sig_calls = 0 /\ probes = 0
  /\ tramp_pc = "none" /\ sig = 0

\* the runtime has installed handle_signal, the build has POSIX signals,
\* no signal is blocked, and caml_set_signal_action installs handle_signal
InitWith(tables, heapwords, sigs) ==
  InitEnv(tables, HeapBase, heapwords, sigs, {"posix"}, {{}}, {NSIG - 1}, {2}, {"managed"})

Init == InitWith(MainTables, HeapWords, {0})

\* the handler runs only while no trampoline is on top of it and the
\* process is alive
Running == tramp_pc = "none" /\ fault = "none"

(* ---------------------- caml_garbage_collection ----------------------- *)

\* entry: read the return address on top of the stack, start the lookup
Call(ra) ==
  /\ Running /\ pc = "idle"
  /\ retaddr' = ra
  /\ allocsz' = 0 /\ whsize' = 0 /\ nallocs' = 0
  /\ h' = Hash_retaddr(ra, fds.mask)
  /\ d' = NULL /\ d_null' = FALSE
  /\ gc_calls' = 0 /\ sig_calls' = 0 /\ probes' = 0 /\ ptr_writes' = 0
  /\ own_adj' = 0 /\ sa' = NoCall
  /\ pc' = "lookup"
  /\ UNCHANGED <<envVars, osVars, heapVars, pending, fault, trampVars>>

\* mutant: the probe steps by two
NextProbeStepTwo(hh, mask) == (hh + 2) % (mask + 1)

\* h = (h + 1) & fds.mask
NextProbe(hh, mask) == (hh + 1) % (mask + 1)

\* what a read through the null pointer of an empty slot may yield as a
\* descriptor when it does not trap
GarbageDescrs(ra) == { MkDescr(ra, 18, 0, <<0>>), MkDescr(ra, 16, 1, <<>>) }

\* one iteration of the lookup loop: d = fds.descriptors[h]; compare; step.
\* Reading d->retaddr in an empty slot dereferences the null pointer: the
\* process traps, or the read yields a word that differs from or equals
\* retaddr.
LookupProbe ==
  /\ Running /\ pc = "lookup"
  /\ probes' = Min(probes + 1, fds.mask + 2)
  /\ LET slot == fds.descriptors[h] IN
     IF slot = NULL
     THEN \/ /\ fault' = "segv"
             /\ d' = NULL /\ d_null' = TRUE
             /\ UNCHANGED <<h, pc>>
          \/ /\ h' = NextProbe(h, fds.mask)
             /\ d' = NULL /\ d_null' = TRUE
             /\ UNCHANGED <<fault, pc>>
          \/ /\ d' \in GarbageDescrs(retaddr)
             /\ d_null' = TRUE
             /\ pc' = "assert"
             /\ UNCHANGED <<fault, h>>
     ELSE /\ d' = slot /\ d_null' = FALSE
          /\ UNCHANGED fault
          /\ IF slot.retaddr = retaddr
             THEN pc' = "assert" /\ UNCHANGED h
             ELSE h' = NextProbe(h, fds.mask) /\ UNCHANGED pc
  /\ UNCHANGED <<envVars, osVars, sa, own_adj, heapVars, pending, retaddr, allocsz, whsize, nallocs,
                 gc_calls, sig_calls, ptr_writes, trampVars>>

\* CAMLassert(d && d->frame_size != 0xFFFF && (d->frame_size & 2))
AssertHolds == ~d_null /\ IsAllocFrame(d.frame_size)

AssertStep ==
  /\ Running /\ pc = "assert"
  /\ IF debug /\ ~AssertHolds
     THEN fault' = "assert" /\ UNCHANGED pc
     ELSE pc' = "decode" /\ UNCHANGED fault
  /\ UNCHANGED <<envVars, osVars, sa, own_adj, heapVars, pending, localVars, countVars, trampVars>>

\* *alloc_len: the byte after the num_live live offsets
CountByte(dd) == dd.tail[dd.num_live + 1]
\* alloc_len[0 .. nallocs-1]: the bytes after the count byte
AllocLens(dd) == SubSeq(dd.tail, dd.num_live + 2, dd.num_live + 1 + CountByte(dd))

\* for (i = 0; i < nallocs; i++) allocsz += Whsize_wosize(Wosize_encoded_alloc_len(alloc_len[i]))
RECURSIVE SumWhsize(_)
SumWhsize(lens) ==
  IF lens = <<>> THEN 0
  ELSE SumWhsize(SubSeq(lens, 1, Len(lens) - 1))
       + Whsize_wosize(Wosize_encoded_alloc_len(lens[Len(lens)]))

\* mutant: the decrement of allocsz is left out
DecodeAllocszNoDecrement(lens) == SumWhsize(lens)

\* allocsz after the loop and "allocsz -= 1"
DecodeAllocsz(lens) == SumWhsize(lens) - 1
\* whsize = Whsize_wosize(allocsz)
DecodeWhsize(lens) == Whsize_wosize(DecodeAllocsz(lens))

\* mutant: a count of zero is not told apart
IsPollNever(n) == FALSE

\* if (nallocs == 0): this is a poll
IsPoll(n) == n = 0

\* read the count; a poll goes to the poll path, an allocation computes
\* whsize and puts the young pointer back: young_ptr += whsize
Decode ==
  /\ Running /\ pc = "decode"
  /\ nallocs' = CountByte(d)
  /\ IF IsPoll(CountByte(d))
     THEN /\ pc' = "poll_gc"
          /\ UNCHANGED <<allocsz, whsize, young_ptr, ptr_writes, own_adj>>
     ELSE /\ allocsz' = DecodeAllocsz(AllocLens(d))
          /\ whsize' = DecodeWhsize(AllocLens(d))
          /\ young_ptr' = (young_ptr + DecodeWhsize(AllocLens(d))) % AddrSpace
          /\ ptr_writes' = Sat(ptr_writes)
          /\ own_adj' = OwnAdj(own_adj, young_ptr, young_ptr')
          /\ pc' = "loop_gc"
  /\ UNCHANGED <<envVars, osVars, sa, young_limit, pending, retaddr, h, d, d_null, fault,
                 gc_calls, sig_calls, probes, trampVars>>

\* caml_handle_gc_interrupt(): opaque; it may collect, run finalisers and
\* answer interrupts, leaving the cursor where it was or anywhere in the
\* minor heap, and the limit where it was or at any value the runtime uses
ExternalHeap ==
  /\ young_ptr' \in {young_ptr} \cup (young_start..young_end)
  /\ young_limit' \in {young_limit} \cup LimitChoices(young_start, young_end)

caml_handle_gc_interrupt(next) ==
  /\ ExternalHeap
  /\ gc_calls' = Sat(gc_calls)
  /\ pc' = next
  /\ UNCHANGED <<envVars, osVars, sa, own_adj, pending, localVars, fault, sig_calls, probes,
                 ptr_writes, trampVars>>

\* the recorded signals a drain acts on: those the thread has not blocked
Actionable(p, b) == p \ b

\* mutant: the drain leaves every recorded signal where it is
caml_process_pending_signals_keep(next) ==
  /\ UNCHANGED <<pending, heapVars>>
  /\ sig_calls' = Sat(sig_calls)
  /\ pc' = next
  /\ UNCHANGED <<envVars, osVars, sa, own_adj, localVars, fault, gc_calls, probes, ptr_writes, trampVars>>

\* caml_process_pending_signals(): clears the recorded signals that are
\* actionable and runs their handlers, which may allocate
caml_process_pending_signals(next) ==
  /\ pending' = pending \ Actionable(pending, blocked)
  /\ IF Actionable(pending, blocked) = {} THEN UNCHANGED heapVars ELSE ExternalHeap
  /\ sig_calls' = Sat(sig_calls)
  /\ pc' = next
  /\ UNCHANGED <<envVars, osVars, sa, own_adj, localVars, fault, gc_calls, probes, ptr_writes, trampVars>>

\* mutant: the poll path returns without draining the pending signals
PollGcNoDrain == Running /\ pc = "poll_gc" /\ caml_handle_gc_interrupt("ret")

\* mutant: the loop body goes to the exit test without draining
LoopGcNoDrain == Running /\ pc = "loop_gc" /\ caml_handle_gc_interrupt("loop_test")

\* the poll path: caml_handle_gc_interrupt(); caml_process_pending_signals(); return
PollGc == Running /\ pc = "poll_gc" /\ caml_handle_gc_interrupt("poll_sig")
PollSig == Running /\ pc = "poll_sig" /\ caml_process_pending_signals("ret")
\* the body of the do-while loop
LoopGc == Running /\ pc = "loop_gc" /\ caml_handle_gc_interrupt("loop_sig")
LoopSig == Running /\ pc = "loop_sig" /\ caml_process_pending_signals("loop_test")

\* mutant: the loop stops when the retracted cursor equals the limit
LoopAgainStrict(ptr, wh, limit) == (ptr - wh) % AddrSpace < limit
\* mutant: the loop tests the cursor before retraction
LoopAgainNoRetract(ptr, wh, limit) == ptr <= limit

\* while ((uintnat)(Caml_state->young_ptr - whsize) <= Caml_state->young_limit)
LoopAgain(ptr, wh, limit) == (ptr - wh) % AddrSpace <= limit

LoopTest ==
  /\ Running /\ pc = "loop_test"
  /\ pc' = IF LoopAgain(young_ptr, whsize, young_limit) THEN "loop_gc" ELSE "retract"
  /\ UNCHANGED <<envVars, osVars, sa, own_adj, heapVars, pending, localVars, fault, countVars, trampVars>>

\* mutant: the retraction takes allocsz, the size without the header
RetractByAllocsz ==
  /\ Running /\ pc = "retract"
  /\ young_ptr' = (young_ptr - allocsz) % AddrSpace
  /\ ptr_writes' = Sat(ptr_writes)
  /\ own_adj' = OwnAdj(own_adj, young_ptr, young_ptr')
  /\ pc' = "ret"
  /\ UNCHANGED <<envVars, osVars, sa, young_limit, pending, localVars, fault,
                 gc_calls, sig_calls, probes, trampVars>>

\* Caml_state->young_ptr -= whsize; return
Retract ==
  /\ Running /\ pc = "retract"
  /\ young_ptr' = (young_ptr - whsize) % AddrSpace
  /\ ptr_writes' = Sat(ptr_writes)
  /\ own_adj' = OwnAdj(own_adj, young_ptr, young_ptr')
  /\ pc' = "ret"
  /\ UNCHANGED <<envVars, osVars, sa, young_limit, pending, localVars, fault,
                 gc_calls, sig_calls, probes, trampVars>>

\* compiled code resumes after the call
Resume ==
  /\ Running /\ pc = "ret"
  /\ pc' = "idle"
  /\ retaddr' = 0 /\ h' = 0 /\ d' = NULL /\ d_null' = FALSE
  /\ allocsz' = 0 /\ whsize' = 0 /\ nallocs' = 0
  /\ gc_calls' = 0 /\ sig_calls' = 0 /\ probes' = 0 /\ ptr_writes' = 0
  /\ own_adj' = 0
  /\ UNCHANGED <<envVars, osVars, sa, heapVars, pending, fault, trampVars>>

\* compiled code between calls: a bump allocation moves the cursor down
MutatorStep ==
  /\ Running /\ pc = "idle"
  /\ young_ptr > young_start - MaxWhsize
  /\ young_ptr' = young_ptr - 1
  /\ UNCHANGED <<envVars, osVars, sa, own_adj, young_limit, pending, pc, localVars, fault, countVars, trampVars>>

(* --------------------------- handle_signal ---------------------------- *)

\* caml_record_signal(sig)
caml_record_signal(p, s) == p \cup {s}

\* mutant: signal 0 is taken to be out of range
HandleSignalBodyLowOff(p, s) ==
  IF s <= 0 \/ s >= NSIG THEN p ELSE caml_record_signal(p, s)
\* mutant: signal NSIG is taken to be in range
HandleSignalBodyHighOff(p, s) ==
  IF s < 0 \/ s > NSIG THEN p ELSE caml_record_signal(p, s)

\* if (sig < 0 || sig >= NSIG) return; caml_record_signal(sig);
HandleSignalBody(p, s) ==
  IF s < 0 \/ s >= NSIG THEN p ELSE caml_record_signal(p, s)

\* errno on return: the out-of-range return leaves errno as the body made
\* it, the in-range path ends with errno = saved_errno
HandleSignalErrno(s, e, saved) == IF s < 0 \/ s >= NSIG THEN e ELSE saved

\* the OS delivers signal s: handle_signal starts on top of whatever runs,
\* saves errno and, in a build with neither POSIX_SIGNALS nor BSD_SIGNALS,
\* calls signal(sig, handle_signal).  The OS runs handle_signal for a signal
\* it knows only while that signal's disposition is handle_signal.
TrampEnter(s) ==
  /\ fault = "none" /\ tramp_pc = "none"
  /\ s \in sigset
  /\ OsValid(s) => disp[s] = "managed"
  /\ tramp_pc' = "body" /\ sig' = s
  /\ saved_errno' = errno
  /\ disp' = Rearm(platform, OsDeliver(platform, disp, s), s)
  /\ errno' = RearmErrno(platform, errno, s)
  /\ UNCHANGED <<envVars, sa, own_adj, heapVars, pending, pc, localVars, fault, countVars>>

\* mutant: the body drains the signals recorded before it
TrampBodyDrains ==
  /\ fault = "none" /\ tramp_pc = "body"
  /\ pending' = IF pending = {} THEN HandleSignalBody(pending, sig) ELSE {}
  /\ errno' = HandleSignalErrno(sig, errno, saved_errno)
  /\ tramp_pc' = "none"
  /\ UNCHANGED <<envVars, disp, sa, own_adj, heapVars, pc, localVars, fault, countVars,
                 sig, saved_errno>>
\* mutant: the body allocates a word in the minor heap
TrampBodyAllocates ==
  /\ fault = "none" /\ tramp_pc = "body"
  /\ pending' = HandleSignalBody(pending, sig)
  /\ errno' = HandleSignalErrno(sig, errno, saved_errno)
  /\ young_ptr' = (young_ptr - 1) % AddrSpace
  /\ tramp_pc' = "none"
  /\ UNCHANGED <<envVars, disp, sa, own_adj, young_limit, pc, localVars, fault, countVars,
                 sig, saved_errno>>

\* if (sig < 0 || sig >= NSIG) return; caml_record_signal(sig); errno = saved_errno;
TrampBody ==
  /\ fault = "none" /\ tramp_pc = "body"
  /\ pending' = HandleSignalBody(pending, sig)
  /\ errno' = HandleSignalErrno(sig, errno, saved_errno)
  /\ tramp_pc' = "none"
  /\ UNCHANGED <<envVars, disp, sa, own_adj, heapVars, pc, localVars, fault, countVars,
                 sig, saved_errno>>

(* ----------------------- caml_set_signal_action ----------------------- *)

\* mutant: only the action value 2 installs handle_signal
ActOfTwoOnly(action) ==
  IF action = 1 THEN "ignore" ELSE IF action = 2 THEN "managed" ELSE "default"

\* switch(action): 0 is SIG_DFL, 1 is SIG_IGN, anything else handle_signal
ActOf(action) ==
  IF action = 0 THEN "default" ELSE IF action = 1 THEN "ignore" ELSE "managed"

\* mutant: whatever is neither SIG_DFL nor SIG_IGN is reported as handle_signal
OldactCodeElseOurs(oldact) ==
  IF oldact = "default" THEN 0 ELSE IF oldact = "ignore" THEN 1 ELSE 2

\* the classification of oldact: 2 for handle_signal, 1 for SIG_IGN, else 0
OldactCode(oldact) ==
  IF oldact = "managed" THEN 2 ELSE IF oldact = "ignore" THEN 1 ELSE 0

\* mutant: the result of the OS call is not tested
SetSignalActionResultNoTest(ok, oldact) ==
  IF oldact = "managed" THEN 2 ELSE IF oldact = "ignore" THEN 1 ELSE 0

\* if (sigaction(...) == -1) return -1;  or  if (oldact == SIG_ERR) return -1;
\* then the classification
SetSignalActionResult(ok, oldact) == IF ~ok THEN -1 ELSE OldactCode(oldact)

\* one call caml_set_signal_action(signo, action) from ordinary C code
caml_set_signal_action(signo, action) ==
  /\ Running /\ pc = "idle"
  /\ signo \in signos /\ action \in actset
  /\ LET ok == OsValid(signo)
         oldact == IF ok THEN disp[signo] ELSE "error"
     IN /\ disp' = OsSetDisposition(disp, signo, ActOf(action))
        /\ errno' = OsSetErrno(errno, signo)
        /\ sa' = [called |-> TRUE, signo |-> signo, action |-> action,
                  oldact |-> oldact, result |-> SetSignalActionResult(ok, oldact)]
  /\ UNCHANGED <<envVars, own_adj, heapVars, pending, pc, localVars, fault, countVars,
                 trampVars>>

(* --------------------------- specification ---------------------------- *)

Next ==
  \/ \E ra \in RetAddrs : Call(ra)
  \/ LookupProbe
  \/ AssertStep
  \/ Decode
  \/ PollGc
  \/ PollSig
  \/ LoopGc
  \/ LoopSig
  \/ LoopTest
  \/ Retract
  \/ Resume
  \/ MutatorStep
  \/ \E s \in SigInputs : TrampEnter(s)
  \/ TrampBody
  \/ \E signo \in SigInputs, action \in Actions : caml_set_signal_action(signo, action)

Spec == Init /\ [][Next]_vars

\* the lookup specification: every table, a heap with room for the smallest
\* request only
LookupHeapWords == Whsize_wosize(Wosize_encoded_alloc_len(0)) + 1
InitLookup == InitWith(LookupTables, LookupHeapWords, {0})
LookupSpec == InitLookup /\ [][Next]_vars

\* the signal specification: one table, the small heap, every signal input
InitSig ==
  InitWith({BuildTable(<<SiteDescr(2), SiteDescr(1)>>, 2)}, LookupHeapWords, SigInputs)
SigSpec == InitSig /\ [][Next]_vars

\* the fair specification: the thread running the handler keeps being
\* scheduled, a trampoline runs to its end, and the external passes keep
\* producing, again and again, a heap in which the loop test lets go
HandlerStep ==
  \/ LookupProbe \/ AssertStep \/ Decode \/ PollGc \/ PollSig
  \/ LoopGc \/ LoopSig \/ LoopTest \/ Retract
Enough == ~LoopAgain(young_ptr, whsize, young_limit)
InitFair ==
  InitWith({BuildTable(<<SiteDescr(2), SiteDescr(1)>>, 2)}, LookupHeapWords, {0})
FairSpec ==
  /\ InitFair /\ [][Next]_vars
  /\ SF_vars(HandlerStep)
  /\ WF_vars(TrampBody)
  /\ SF_vars(LoopGc /\ Enough')
  /\ SF_vars(LoopSig /\ Enough')

\* the platform specification: every build, handle_signal installed, the
\* signal NSIG-1 blocked or not, a known and an unknown signal number
Platforms == {"posix", "bsd", "plain"}
InitPlat ==
  InitEnv({BuildTable(<<SiteDescr(2), SiteDescr(1)>>, 2)}, HeapBase, LookupHeapWords,
          {NSIG - 1, NSIG}, Platforms, {{}, {NSIG - 1}}, {NSIG - 1}, {2}, {"managed"})
PlatSpec == InitPlat /\ [][Next]_vars

\* the disposition specification: a build that calls sigaction and one that
\* calls signal, every action value, a known and an unknown signal number,
\* the signal at first at its default or in the hands of a handler of other
\* code
InitDisp ==
  InitEnv({BuildTable(<<SiteDescr(2), SiteDescr(1)>>, 2)}, HeapBase, LookupHeapWords,
          {NSIG - 1}, {"posix", "plain"}, {{}}, {NSIG - 1, NSIG}, Actions, {"default", "other"})
DispSpec == InitDisp /\ [][Next]_vars

\* the scenario specification: a call site that asks for ScenarioWords
\* words, and a heap wide enough for a pass that frees ScenarioFreed words
ScenarioWords == 10
ScenarioFreed == 20
ScenarioEntry == 2
ScenarioHeapWords == ScenarioEntry + ScenarioWords + ScenarioFreed
ScenarioDescr == MkDescr(RetAddr(1), 18, 0, <<2, 4>>)
\* the heap starts ScenarioWords higher: the cursor never wraps
InitScenario ==
  InitEnv({BuildTable(<<SiteDescr(2), ScenarioDescr>>, 2)}, HeapBase + ScenarioWords,
          ScenarioHeapWords,
          {0}, {"posix"}, {{}}, {NSIG - 1}, {2}, {"managed"})
ScenarioSpec == InitScenario /\ [][Next]_vars

(* ------------------------------ claims -------------------------------- *)

\* the call returned from an allocation call site
ReturnedAlloc == pc = "ret" /\ nallocs >= 1
\* the call returned from a poll call site
ReturnedPoll == pc = "ret" /\ nallocs = 0

\* C1: whenever caml_garbage_collection returns from an allocation call
\* site, the heap cursor young_ptr is strictly above the low-water limit
\* young_limit, whatever the external passes did and however many loop
\* iterations ran.
C1_CursorAboveLimit == ReturnedAlloc => young_ptr > young_limit

\* C1 witness: a return from an allocation site of a real descriptor after
\* more than one loop iteration.
C1_Witness == ReturnedAlloc /\ ~d_null /\ gc_calls >= 2 /\ whsize >= 4

\* C2 as stated: on return the cursor is at least S words above the limit.
C2_HeadroomAtLeastS == ReturnedAlloc => young_ptr - young_limit >= whsize

\* C2 amended: when the loop has confirmed the headroom (before the final
\* retraction) the cursor is more than S words above the limit, and on
\* return, S words lower, it is at least one word above the limit.
C2_HeadroomAfterRetract ==
  /\ pc = "retract" => young_ptr - young_limit >= whsize + 1
  /\ ReturnedAlloc => young_ptr - young_limit >= 1

\* C2 witness: a return from an allocation site with exactly one word
\* between the limit and the cursor, fewer than the S words requested.
C2_Witness == ReturnedAlloc /\ ~d_null /\ young_ptr - young_limit = 1 /\ whsize >= 2

\* C3: once invoked, the handler call eventually returns or the process
\* ends in a fault, given that the external passes keep making progress.
C3_CallTerminates == (pc = "lookup") ~> (pc = "ret" \/ fault # "none")

\* C3, for the calls whose return address has a descriptor: these do
\* return or fault under the same fairness.
C3_PresentCallTerminates ==
  (pc = "lookup" /\ Present(fds, retaddr)) ~> (pc = "ret" \/ fault # "none")

\* C4: on the poll path the handler calls the external interrupt pass
\* exactly once, then the drain exactly once, then returns, and it never
\* stores to the heap cursor itself.
C4_PollOnce ==
  /\ pc = "poll_gc" => gc_calls = 0 /\ sig_calls = 0 /\ ptr_writes = 0
  /\ pc = "poll_sig" => gc_calls = 1 /\ sig_calls = 0 /\ ptr_writes = 0
  /\ ReturnedPoll => gc_calls = 1 /\ sig_calls = 1 /\ ptr_writes = 0

\* C4 witness: a return from the poll site of a real descriptor, the
\* external pass having moved the cursor meanwhile.
C4_Witness == ReturnedPoll /\ ~d_null /\ young_ptr = young_end /\ young_limit = young_start

\* C5: when no descriptor has the return address as its key, the call ends
\* in a fault reported through the fatal-error path: the process does not
\* trap on a wild read, the lookup does not read more slots than the table
\* has, and the call goes no further than the lookup unless to report.
C5_AbsentIsFatal ==
  (pc # "idle" /\ ~Present(fds, retaddr)) =>
     /\ fault # "segv"
     /\ probes <= fds.mask + 1
     /\ (pc # "lookup" => fault = "assert")

\* C6: for a return address present in the table (built by linear probing,
\* every insertion order) the lookup loop ends
\* within table-size reads at a descriptor whose key is the return address,
\* and reads no empty slot on the way.
C6_LookupFinds ==
  (pc # "idle" /\ Present(fds, retaddr)) =>
     /\ ~d_null /\ fault # "segv"
     /\ probes <= fds.mask + 1
     /\ (pc = "lookup" => probes <= fds.mask)
     /\ (pc # "lookup" => d # NULL /\ d.retaddr = retaddr
                          /\ fds.descriptors[h] = d)

\* C6 witness: a lookup that ended at its descriptor after reading every
\* slot of the table, wrapping around the end of the table.
C6_Witness ==
  /\ pc = "assert" /\ Present(fds, retaddr) /\ d.retaddr = retaddr
  /\ probes = fds.mask + 1 /\ h < Hash_retaddr(retaddr, fds.mask)

\* the encoded lengths a descriptor carries, and the sum of their
\* header-inclusive sizes, size by size from the first
EncodedLens(dd) == SubSeq(dd.tail, dd.num_live + 2, Len(dd.tail))
RECURSIVE SumHeaderInclusive(_)
SumHeaderInclusive(lens) ==
  IF lens = <<>> THEN 0 ELSE (lens[1] + 1) + 1 + SumHeaderInclusive(Tail(lens))
AfterDecodeAlloc ==
  pc \in {"loop_gc", "loop_sig", "loop_test", "retract", "ret"} /\ nallocs >= 1 /\ ~d_null

\* C7 as stated: the size used to advance and retract the cursor is the sum
\* of the header-inclusive sizes minus one word.
C7_WhsizeIsSumMinusOne ==
  AfterDecodeAlloc => whsize = SumHeaderInclusive(EncodedLens(d)) - 1

\* C7 amended: the header-exclusive total allocsz is the sum of the
\* header-inclusive sizes minus one word, and the size used to advance and
\* retract the cursor, whsize, is that total plus one header word: the sum
\* itself. Header-exclusive sizes 3 and 5 (encoded 2 and 4) give allocsz 9
\* and whsize 10.
C7_WhsizeIsSum ==
  /\ AfterDecodeAlloc =>
       /\ allocsz = SumHeaderInclusive(EncodedLens(d)) - 1
       /\ whsize = SumHeaderInclusive(EncodedLens(d))
  /\ DecodeAllocsz(<<2, 4>>) = 9 /\ DecodeWhsize(<<2, 4>>) = 10

\* C7 witness: a combined allocation of two sizes has been decoded.
C7_Witness == AfterDecodeAlloc /\ Len(EncodedLens(d)) = 2 /\ d.num_live = 1

\* the descriptor carries a count of zero
PollDescr(dd) == dd = MkDescr(dd.retaddr, dd.frame_size, dd.num_live, <<>>)

InRange(s) == 0 <= s /\ s < NSIG
TrampReturns == tramp_pc = "body" /\ tramp_pc' = "none"

\* C9: handle_signal only adds to the pending-signal set: on its return an
\* in-range signal is pending and every signal pending before still is; no
\* step of the trampoline removes an entry.
C9_TrampolineOnlyAdds ==
  [][ /\ TrampReturns => pending \subseteq pending' /\ (InRange(sig) => sig \in pending')
      /\ (tramp_pc = "none" /\ tramp_pc' = "body") => pending' = pending ]_vars

\* C9 witness: handle_signal returned for an in-range signal while another
\* signal was pending, and both are pending.
C9_Witness ==
  tramp_pc = "none" /\ sig = NSIG - 1 /\ pending = {0, NSIG - 1} /\ fault = "none"

\* C10: handle_signal invoked with an out-of-range signal number returns
\* with the pending-signal set unchanged and raises no fault.
C10_OutOfRangeIgnored ==
  [][ (TrampReturns /\ ~InRange(sig)) => pending' = pending /\ fault' = "none" ]_vars

\* C10 witness: handle_signal returned for signal NSIG, and again for -1,
\* while a signal was pending; nothing else was added.
C10_Witness ==
  tramp_pc = "none" /\ sig \in {NSIG, -1} /\ pending = {0} /\ fault = "none"

\* C11 as stated: on every return of handle_signal, errno equals errno at
\* the entry of handle_signal, on the in-range path, on the out-of-range
\* path and in a build that re-arms the handler inside the body.
C11_ErrnoPreserved == [][TrampReturns => errno' = saved_errno]_vars

\* a drain: a step of caml_process_pending_signals, on the poll path or in
\* the loop
DrainStep ==
  \/ pc = "poll_sig" /\ pc' = "ret"
  \/ pc = "loop_sig" /\ pc' = "loop_test"

\* C12: the drain is never run from inside handle_signal: every step that
\* takes a signal out of the pending set, and every drain, is a step of
\* caml_garbage_collection (poll path or loop) taken while no trampoline is
\* in progress, before and after the step.
C12_DrainOnlyFromHandler ==
  [][(pending \ pending' # {} \/ DrainStep)
       => (DrainStep /\ tramp_pc = "none" /\ tramp_pc' = "none")]_vars

\* C12 witness: a trampoline is in progress on top of a call that is about
\* to drain a recorded signal.
C12_Witness == tramp_pc = "body" /\ pc = "loop_sig" /\ pending # {} /\ gc_calls >= 1

ActionCode(a) == IF a = 0 THEN 0 ELSE IF a = 1 THEN 1 ELSE 2

\* C14: for a signal the OS accepts, when the latest call was
\* caml_set_signal_action(s, a), the next call caml_set_signal_action(s, b)
\* returns the code of a (0, 1, or 2 for any other action value) and leaves
\* the disposition of s at the one b stands for.
C14_ReportsPrior ==
  [][\A s \in OsSigs, a \in Actions, b \in Actions :
       (sa.called /\ sa.signo = s /\ sa.action = a /\ caml_set_signal_action(s, b))
         => (sa'.result = ActionCode(a) /\ disp'[s] = ActOf(b))]_vars

\* C14 witness: a call that installed handle_signal through an action value
\* other than 2 reported that the signal was ignored before.
C14_Witness ==
  sa.called /\ sa.action = 3 /\ sa.result = 1 /\ disp[sa.signo] = "managed"

\* C15: a call the OS rejects returns -1, which is none of 0, 1, 2; the
\* process goes on, and no disposition and no pending signal changes.
C15_RejectedCall ==
  [][\A s \in SigInputs, a \in Actions :
       (~OsValid(s) /\ caml_set_signal_action(s, a))
         => /\ sa'.result = -1 /\ sa'.result \notin {0, 1, 2}
            /\ disp' = disp /\ pending' = pending /\ fault' = "none"]_vars

\* C15 witness: a call for the signal number NSIG returned -1.
C15_Witness == sa.called /\ sa.signo = NSIG /\ sa.result = -1 /\ fault = "none"

\* C16: in a build with neither POSIX nor BSD signals, when handle_signal
\* returns from a delivery of a signal the OS knows, whose disposition was
\* handle_signal when it was delivered, the disposition is handle_signal
\* again.
C16_Rearmed ==
  [][(TrampReturns /\ platform = "plain" /\ OsValid(sig)) => disp'[sig] = "managed"]_vars

\* C16 witness: in such a build a delivery of NSIG-1 has returned, the
\* signal is recorded and its disposition is handle_signal.
C16_Witness ==
  /\ platform = "plain" /\ tramp_pc = "none" /\ sig = NSIG - 1
  /\ sig \in pending /\ disp[sig] = "managed"

\* the loop has run its body to the end at least once
AfterLoopBody == pc \in {"loop_test", "retract"} \/ ReturnedAlloc

\* C17: on the allocation path the loop body runs at least once, the
\* interrupt pass first and the drain second, so from the exit test on the
\* two call counts are equal and at least 1; and in the scenario (limit L,
\* entry cursor L+2, request of 10 words, a pass that frees 20 words) the
\* exit test after the first iteration leaves the loop and the retraction
\* leaves the cursor at L+10 or above.
C17_LoopAtLeastOnce ==
  /\ [](pc = "loop_sig" => (gc_calls >= 1 /\ (gc_calls < MaxCount => sig_calls = gc_calls - 1)))
  /\ [](AfterLoopBody => (gc_calls >= 1 /\ sig_calls = gc_calls))
  /\ [][(/\ pc = "loop_test" /\ pc' # pc /\ whsize = ScenarioWords /\ gc_calls = 1
          /\ young_ptr = young_limit + ScenarioEntry + ScenarioWords + ScenarioFreed)
           => pc' = "retract"]_vars
  /\ [][(/\ pc = "retract" /\ pc' # pc /\ whsize = ScenarioWords /\ gc_calls = 1
          /\ young_ptr = young_limit + ScenarioEntry + ScenarioWords + ScenarioFreed)
           => (pc' = "ret" /\ young_ptr' >= young_limit + ScenarioWords)]_vars

\* C17 witness: the scenario call has returned after one iteration, the
\* cursor where the freed words and the retraction put it.
C17_Witness ==
  /\ ReturnedAlloc /\ whsize = ScenarioWords /\ gc_calls = 1 /\ sig_calls = 1
  /\ young_limit = young_start
  /\ young_ptr = young_limit + ScenarioEntry + ScenarioFreed

\* C18: the call's own stores to the cursor are one advance by whsize
\* before the first external call and one retraction by whsize after the
\* last: while the external passes run the net of the call's own stores is
\* whsize, on return it is zero, so the cursor on return is the entry
\* cursor plus what the external passes changed.
C18_NetZero ==
  /\ pc \in {"lookup", "assert", "decode", "poll_gc", "poll_sig"}
       => (own_adj = 0 /\ ptr_writes = 0)
  /\ pc \in {"loop_gc", "loop_sig", "loop_test", "retract"}
       => (own_adj = whsize /\ ptr_writes = 1)
  /\ ReturnedAlloc => (own_adj = 0 /\ ptr_writes = 2)
  /\ ReturnedPoll => (own_adj = 0 /\ ptr_writes = 0)

\* C18 witness: a return from an allocation site of a real descriptor
\* after the advance, two iterations and the retraction.
C18_Witness ==
  ReturnedAlloc /\ ~d_null /\ own_adj = 0 /\ ptr_writes = 2 /\ gc_calls >= 2 /\ whsize >= 2

\* a step of handle_signal: its start or its return
TrampStep == tramp_pc' # tramp_pc

\* C19: a step of handle_signal, wherever it falls in a call, changes
\* neither young_ptr nor young_limit, so the cursor is above the limit on
\* every return from an allocation site; the signal it records is in the
\* pending set when it returns, and a recorded signal leaves the pending
\* set only by a drain, so at the return of the call it was handled by a
\* drain or is still pending.
C19_TrampolineHarmless ==
  /\ [](ReturnedAlloc => young_ptr > young_limit)
  /\ [][TrampStep => UNCHANGED heapVars]_vars
  /\ [][(TrampReturns /\ InRange(sig)) => sig \in pending']_vars
  /\ [][\A s \in pending : s \notin pending' => DrainStep]_vars

\* C19 witness: a call returned from an allocation site with a signal
\* recorded after its last drain still pending.
C19_Witness ==
  ReturnedAlloc /\ ~d_null /\ tramp_pc = "none" /\ sig_calls >= 1 /\ pending # {}

\* C20 as stated: the call returns 0 exactly when the disposition before
\* it was the OS default, a handler of other code not counting as default.
C20_ZeroIffDefault ==
  (sa.called /\ sa.result # -1) => (sa.result = 0 <=> sa.oldact = "default")

\* C20 amended: the call returns 0 exactly when the disposition before it
\* was neither handle_signal nor SIG_IGN: the OS default or a handler of
\* other code, which the result does not tell apart.
C20_ZeroIffNotOurs ==
  (sa.called /\ sa.result # -1)
    => /\ sa.result = 0 <=> sa.oldact \in {"default", "other"}
       /\ sa.result = 1 <=> sa.oldact = "ignore"
       /\ sa.result = 2 <=> sa.oldact = "managed"

\* C20 witness: a call found a handler of other code and returned 0.
C20_Witness == sa.called /\ sa.oldact = "other" /\ sa.result = 0

====
